---- MODULE Spec2Model ----
(***************************************************************************)
(* Asynchronous export-and-playback engine of the wildfire dashboard.      *)
(*                                                                         *)
(* Part I   Frame Sequencer / Animation Player                              *)
(*          (js/modules/ui/WildfireSimulationLayer.js)                      *)
(* Part II  Export Task Orchestrator and Fallback Layer Resolver            *)
(*          (DataManager functions kept in js/utils/toast.js,               *)
(*           js/modules/services/APIClient.js, js/modules/ui/ForestLayer.js)*)
(*                                                                         *)
(* JavaScript runs one task at a time.  Every action below is one task or  *)
(* one continuation of an async function between two suspension points.    *)
(* Continuations of an already resolved promise are microtasks: they run   *)
(* before any further task (timer tick, event, network completion, call    *)
(* from the UI), which the guard NoMicrotask expresses.                     *)
(***************************************************************************)
EXTENDS Integers, Sequences, FiniteSets, TLC

\* ------------------------------------------------------------------ bounds
\* Frame layer objects (GeoRasterLayer instances) ever created.
MaxFrameObjs == 3
\* Calls of startAnimation in one behaviour.
MaxAnimRuns == 2
\* Hard cap of frame discovery (source value 100), scaled down.
maxTimesteps == 2
\* Where two resolutions interleave, the job service gives a terminal answer at
\* the latest to this status check of a poll loop.
MaxConcPolls == 3

\* ------------------------------------------------------- program constants
\* ForestLayer.js line 108.
MAX_ATTEMPTS == 120

\* ------------------------------------------------------------- Part I state
VARIABLES
    wildfireFrames,     \* module variable: sequence of frame objects
    wildfireAnimTimer,  \* module variable: 0 (null) or the live interval handle
    currentFrame,       \* closure variable of the live startAnimation call
    opacity,            \* frame object -> 0 (hidden) or 1 (DEFAULT_WILDFIRE_OPACITY)
    onMap,              \* frame object -> the layer is on the map
    ready,              \* frame object -> its _readyPromise has resolved
    nFrameObjs,         \* frame objects created so far
    pending,            \* showFrame calls suspended at `await frame._readyPromise`
    loadPc,             \* loader -> position in loadWildfireFrames
    timestep,           \* loader -> local variable timestep
    loadResult,         \* loader -> return value of its last finished call
    frameStep,          \* frame object -> the timestep whose raster it was created from
    animRuns,           \* startAnimation calls so far; the last one is the current run
    revealed,           \* history: frame indices revealed by the current run, in order
    stopped,            \* history: runs whose timer stopAnimation has cleared
    animToasts          \* history: run -> completion notifications emitted

animVars == <<wildfireFrames, wildfireAnimTimer, currentFrame, opacity, onMap, ready,
              nFrameObjs, pending, loadPc, timestep, loadResult, frameStep, animRuns,
              revealed, stopped, animToasts>>

\* ------------------------------------------------------------ Part II state
VARIABLES
    currentCountyKey,          \* appState.currentCountyName + "_" + currentStateAbbr
    currentExportTask,         \* appState.currentExportTask
    currentGEEForestFileUrl,   \* appState.currentGEEForestFileUrl
    geeLayerUrl,               \* appState.geeLayerUrl
    forestLayer,               \* ForestLayer.js module variable
    geoRaster,                 \* ForestLayer.js module variable: run whose raster it is
    geotiffLoaded,             \* ForestLayer.js module variable
    mapLayers,                 \* forest and preview layers on the map
    loaderShown,               \* showLoader / hideLoader
    run,                       \* resolution -> locals of its handleCountySelectionForGEE call
    notes,                     \* history: resolution -> the toasts and alerts it raised
    hist,                      \* history: resolution -> requests and responses it has seen
    onDemand,                  \* a call of checkForestDataStatus from outside the resolver
    tornDown                   \* history: resolutions in flight that a resetForest interrupted

exportVars == <<currentCountyKey, currentExportTask, currentGEEForestFileUrl, geeLayerUrl,
                forestLayer, geoRaster, geotiffLoaded, mapLayers, loaderShown, run, notes,
                hist, onDemand, tornDown>>

vars == <<animVars, exportVars>>

FrameObjs == 1..MaxFrameObjs
AnimRunIds == 1..MaxAnimRuns
\* Concurrent calls of loadWildfireFrames that the model follows.
Loaders == {"l1", "l2"}

\* CONFIG.DEFAULT_WILDFIRE_OPACITY, a non-zero opacity.
DEFAULT_WILDFIRE_OPACITY == 1

FramesOf(seq) == {seq[i] : i \in 1..Len(seq)}

\* The microtask queue is empty: no suspended showFrame waits on a resolved promise.
NoMicrotask == \A p \in pending : ~ready[p.frame]

\* stopAnimation(): clear the interval if one is live.
TimerAfterStop == 0
StoppedAfterStop == IF wildfireAnimTimer # 0 THEN stopped \cup {wildfireAnimTimer} ELSE stopped

\* showFrame(frameIndex) up to its await: the call is suspended on the frame's promise.
ShowFrameCall(runId, frameIndex, frames) ==
    [run |-> runId, idx |-> frameIndex, frame |-> frames[frameIndex + 1]]

AnimInit ==
    /\ wildfireFrames = <<>>
    /\ wildfireAnimTimer = 0
    /\ currentFrame = 0
    /\ opacity = [f \in FrameObjs |-> 0]
    /\ onMap = [f \in FrameObjs |-> FALSE]
    /\ ready = [f \in FrameObjs |-> FALSE]
    /\ nFrameObjs = 0
    /\ pending = {}
    /\ loadPc = [l \in Loaders |-> "idle"]
    /\ timestep = [l \in Loaders |-> 0]
    /\ loadResult = [l \in Loaders |-> "none"]
    /\ frameStep = [f \in FrameObjs |-> 0]
    /\ animRuns = 0
    /\ revealed = <<>>
    /\ stopped = {}
    /\ animToasts = [r \in AnimRunIds |-> 0]

\* loadWildfireFrames, lines 18-32: cleanup of the old frames, timestep = 0.
LoadStart(l) ==
    /\ NoMicrotask
    /\ loadPc[l] \in {"idle", "done"}
    /\ wildfireAnimTimer' = TimerAfterStop
    /\ stopped' = StoppedAfterStop
    /\ onMap' = [f \in FrameObjs |-> IF f \in FramesOf(wildfireFrames) THEN FALSE ELSE onMap[f]]
    /\ wildfireFrames' = <<>>
    /\ timestep' = [timestep EXCEPT ![l] = 0]
    /\ loadPc' = [loadPc EXCEPT ![l] = IF 0 < maxTimesteps THEN "head" ELSE "finish"]
    /\ loadResult' = [loadResult EXCEPT ![l] = "none"]
    /\ UNCHANGED <<currentFrame, opacity, ready, nFrameObjs, pending, animRuns, revealed,
                   animToasts>>
    /\ UNCHANGED frameStep
    /\ UNCHANGED exportVars

\* A probe loop that skips an absent frame (continue) instead of stopping (break).
LoadHeadSkipsAbsent(l, ok) ==
    /\ NoMicrotask
    /\ loadPc[l] = "head"
    /\ IF ok
       THEN /\ loadPc' = [loadPc EXCEPT ![l] = "fetch"]
            /\ UNCHANGED timestep
       ELSE /\ timestep' = [timestep EXCEPT ![l] = @ + 1]
            /\ loadPc' = [loadPc EXCEPT ![l] =
                            IF timestep[l] + 1 < maxTimesteps THEN "head" ELSE "finish"]
    /\ UNCHANGED <<wildfireFrames, wildfireAnimTimer, currentFrame, opacity, onMap, ready,
                   nFrameObjs, pending, loadResult, animRuns, revealed, stopped,
                   animToasts>>
    /\ UNCHANGED frameStep
    /\ UNCHANGED exportVars

\* lines 38-39 and 73-76: the HEAD probe answers ok, not ok, or throws.
LoadHead(l, ok) ==
    /\ NoMicrotask
    /\ loadPc[l] = "head"
    /\ loadPc' = [loadPc EXCEPT ![l] = IF ok THEN "fetch" ELSE "finish"]
    /\ UNCHANGED <<wildfireFrames, wildfireAnimTimer, currentFrame, opacity, onMap, ready,
                   nFrameObjs, pending, timestep, loadResult, animRuns, revealed, stopped,
                   animToasts>>
    /\ UNCHANGED frameStep
    /\ UNCHANGED exportVars

\* A discovery whose catch goes on with the next timestep instead of stopping.
LoadFetchSkipsFailed(l, ok) ==
    /\ NoMicrotask
    /\ loadPc[l] = "fetch"
    /\ IF ok
       THEN /\ nFrameObjs < MaxFrameObjs
            /\ LET f == nFrameObjs + 1 IN
               /\ nFrameObjs' = f
               /\ opacity' = [opacity EXCEPT ![f] = 0]
               /\ ready' = [ready EXCEPT ![f] = FALSE]
               /\ onMap' = [onMap EXCEPT ![f] = TRUE]
               /\ wildfireFrames' = Append(wildfireFrames, f)
               /\ frameStep' = [frameStep EXCEPT ![f] = timestep[l]]
       ELSE UNCHANGED <<nFrameObjs, opacity, ready, onMap, wildfireFrames, frameStep>>
    /\ timestep' = [timestep EXCEPT ![l] = @ + 1]
    /\ loadPc' = [loadPc EXCEPT ![l] =
                    IF timestep[l] + 1 < maxTimesteps THEN "head" ELSE "finish"]
    /\ UNCHANGED <<wildfireAnimTimer, currentFrame, pending, loadResult, animRuns, revealed,
                   stopped, animToasts>>
    /\ UNCHANGED exportVars

\* lines 41-72: fetch, decode, create the layer hidden, add it to the map, push it.
\* A failure of fetch or decode (lines 73-76) ends discovery.
LoadFetch(l, ok) ==
    /\ NoMicrotask
    /\ loadPc[l] = "fetch"
    /\ IF ok
       THEN /\ nFrameObjs < MaxFrameObjs
            /\ LET f == nFrameObjs + 1 IN
               /\ nFrameObjs' = f
               /\ opacity' = [opacity EXCEPT ![f] = 0]
               /\ ready' = [ready EXCEPT ![f] = FALSE]
               /\ onMap' = [onMap EXCEPT ![f] = TRUE]
               /\ wildfireFrames' = Append(wildfireFrames, f)
               /\ frameStep' = [frameStep EXCEPT ![f] = timestep[l]]
            /\ timestep' = [timestep EXCEPT ![l] = @ + 1]
            /\ loadPc' = [loadPc EXCEPT ![l] =
                            IF timestep[l] + 1 < maxTimesteps THEN "head" ELSE "finish"]
       ELSE /\ loadPc' = [loadPc EXCEPT ![l] = "finish"]
            /\ UNCHANGED <<nFrameObjs, opacity, ready, onMap, wildfireFrames, timestep,
                           frameStep>>
    /\ UNCHANGED <<wildfireAnimTimer, currentFrame, pending, loadResult, animRuns, revealed,
                   stopped, animToasts>>
    /\ UNCHANGED exportVars

\* lines 79-90: empty result is reported, otherwise true is returned.
LoadFinish(l) ==
    /\ NoMicrotask
    /\ loadPc[l] = "finish"
    /\ loadPc' = [loadPc EXCEPT ![l] = "done"]
    /\ loadResult' = [loadResult EXCEPT ![l] =
                        IF Len(wildfireFrames) = 0 THEN "empty" ELSE "true"]
    /\ UNCHANGED <<wildfireFrames, wildfireAnimTimer, currentFrame, opacity, onMap, ready,
                   nFrameObjs, pending, timestep, animRuns, revealed, stopped, animToasts>>
    /\ UNCHANGED frameStep
    /\ UNCHANGED exportVars

\* The renderer's 'load' event of a frame layer that is on the map (lines 62-67):
\* resolves the one-shot promise.
FrameLoaded(f) ==
    /\ NoMicrotask
    /\ f \in 1..nFrameObjs
    /\ onMap[f]
    /\ ~ready[f]
    /\ ready' = [ready EXCEPT ![f] = TRUE]
    /\ UNCHANGED <<wildfireFrames, wildfireAnimTimer, currentFrame, opacity, onMap,
                   nFrameObjs, pending, loadPc, timestep, loadResult, animRuns, revealed,
                   stopped, animToasts>>
    /\ UNCHANGED frameStep
    /\ UNCHANGED exportVars

\* A start of the animation that leaves a live interval timer uncleared.
StartAnimationNoStop ==
    /\ NoMicrotask
    /\ Len(wildfireFrames) # 0
    /\ animRuns < MaxAnimRuns
    /\ LET newRun == animRuns + 1 IN
       /\ animRuns' = newRun
       /\ UNCHANGED stopped
       /\ opacity' = [f \in FrameObjs |->
                        IF f \in FramesOf(wildfireFrames) THEN 0 ELSE opacity[f]]
       /\ currentFrame' = 0
       /\ pending' = pending \cup {ShowFrameCall(newRun, 0, wildfireFrames)}
       /\ wildfireAnimTimer' = newRun
       /\ revealed' = <<>>
    /\ UNCHANGED <<wildfireFrames, onMap, ready, nFrameObjs, loadPc, timestep, loadResult,
                   animToasts>>
    /\ UNCHANGED frameStep
    /\ UNCHANGED exportVars

\* startAnimation, lines 93-181 up to the return: stop, hide all, showFrame(0), setInterval.
StartAnimation ==
    /\ NoMicrotask
    /\ Len(wildfireFrames) # 0
    /\ animRuns < MaxAnimRuns
    /\ LET newRun == animRuns + 1 IN
       /\ animRuns' = newRun
       /\ stopped' = StoppedAfterStop
       /\ opacity' = [f \in FrameObjs |->
                        IF f \in FramesOf(wildfireFrames) THEN 0 ELSE opacity[f]]
       /\ currentFrame' = 0
       /\ pending' = pending \cup {ShowFrameCall(newRun, 0, wildfireFrames)}
       /\ wildfireAnimTimer' = newRun
       /\ revealed' = <<>>
    /\ UNCHANGED <<wildfireFrames, onMap, ready, nFrameObjs, loadPc, timestep, loadResult,
                   animToasts>>
    /\ UNCHANGED frameStep
    /\ UNCHANGED exportVars

\* An interval callback that reports completion without clearing the timer.
TimerTickKeepsRunning ==
    /\ NoMicrotask
    /\ wildfireAnimTimer # 0
    /\ currentFrame' = currentFrame + 1
    /\ IF currentFrame + 1 >= Len(wildfireFrames)
       THEN /\ animToasts' = [animToasts EXCEPT ![wildfireAnimTimer] = @ + 1]
            /\ UNCHANGED <<wildfireAnimTimer, stopped, opacity, pending>>
       ELSE /\ opacity' = [opacity EXCEPT ![wildfireFrames[currentFrame + 1]] = 0]
            /\ pending' = pending \cup
                            {ShowFrameCall(wildfireAnimTimer, currentFrame + 1, wildfireFrames)}
            /\ UNCHANGED <<wildfireAnimTimer, stopped, animToasts>>
    /\ UNCHANGED <<wildfireFrames, onMap, ready, nFrameObjs, loadPc, timestep, loadResult,
                   animRuns, revealed>>
    /\ UNCHANGED frameStep
    /\ UNCHANGED exportVars

\* The interval callback, lines 163-180.
TimerTick ==
    /\ NoMicrotask
    /\ wildfireAnimTimer # 0
    /\ currentFrame' = currentFrame + 1
    /\ IF currentFrame + 1 >= Len(wildfireFrames)
       THEN /\ wildfireAnimTimer' = TimerAfterStop
            /\ stopped' = StoppedAfterStop
            /\ animToasts' = [animToasts EXCEPT ![wildfireAnimTimer] = @ + 1]
            /\ UNCHANGED <<opacity, pending>>
       ELSE /\ opacity' = [opacity EXCEPT ![wildfireFrames[currentFrame + 1]] = 0]
            /\ pending' = pending \cup
                            {ShowFrameCall(wildfireAnimTimer, currentFrame + 1, wildfireFrames)}
            /\ UNCHANGED <<wildfireAnimTimer, stopped, animToasts>>
    /\ UNCHANGED <<wildfireFrames, onMap, ready, nFrameObjs, loadPc, timestep, loadResult,
                   animRuns, revealed>>
    /\ UNCHANGED frameStep
    /\ UNCHANGED exportVars

\* A showFrame that does not wait for the readiness promise (no await at line 112).
ShowFrameNoWait(p) ==
    /\ p \in pending
    /\ pending' = pending \ {p}
    /\ onMap' = [onMap EXCEPT ![p.frame] = TRUE]
    /\ opacity' = [opacity EXCEPT ![p.frame] = DEFAULT_WILDFIRE_OPACITY]
    /\ revealed' = IF p.run = animRuns THEN Append(revealed, p.idx) ELSE revealed
    /\ UNCHANGED <<wildfireFrames, wildfireAnimTimer, currentFrame, ready, nFrameObjs,
                   loadPc, timestep, loadResult, animRuns, stopped, animToasts>>
    /\ UNCHANGED frameStep
    /\ UNCHANGED exportVars

\* showFrame after its await, lines 116-152: re-add the layer, set the opacity.
ShowFrameResume(p) ==
    /\ p \in pending
    /\ ready[p.frame]
    /\ pending' = pending \ {p}
    /\ onMap' = [onMap EXCEPT ![p.frame] = TRUE]
    /\ opacity' = [opacity EXCEPT ![p.frame] = DEFAULT_WILDFIRE_OPACITY]
    /\ revealed' = IF p.run = animRuns THEN Append(revealed, p.idx) ELSE revealed
    /\ UNCHANGED <<wildfireFrames, wildfireAnimTimer, currentFrame, ready, nFrameObjs,
                   loadPc, timestep, loadResult, animRuns, stopped, animToasts>>
    /\ UNCHANGED frameStep
    /\ UNCHANGED exportVars

\* stopAnimation called by the UI, lines 183-188.
StopAnimation ==
    /\ NoMicrotask
    /\ wildfireAnimTimer' = TimerAfterStop
    /\ stopped' = StoppedAfterStop
    /\ UNCHANGED <<wildfireFrames, currentFrame, opacity, onMap, ready, nFrameObjs, pending,
                   loadPc, timestep, loadResult, animRuns, revealed, animToasts>>
    /\ UNCHANGED frameStep
    /\ UNCHANGED exportVars

\* A reset that empties the frame set without taking the layers off the map.
ResetSimulationKeepsLayers ==
    /\ NoMicrotask
    /\ wildfireAnimTimer' = TimerAfterStop
    /\ stopped' = StoppedAfterStop
    /\ wildfireFrames' = <<>>
    /\ UNCHANGED <<currentFrame, opacity, onMap, ready, nFrameObjs, pending, loadPc, timestep,
                   loadResult, animRuns, revealed, animToasts>>
    /\ UNCHANGED frameStep
    /\ UNCHANGED exportVars

\* resetSimulation, lines 190-199.
ResetSimulation ==
    /\ NoMicrotask
    /\ wildfireAnimTimer' = TimerAfterStop
    /\ stopped' = StoppedAfterStop
    /\ onMap' = [f \in FrameObjs |-> IF f \in FramesOf(wildfireFrames) THEN FALSE ELSE onMap[f]]
    /\ wildfireFrames' = <<>>
    /\ UNCHANGED <<currentFrame, opacity, ready, nFrameObjs, pending, loadPc, timestep,
                   loadResult, animRuns, revealed, animToasts>>
    /\ UNCHANGED frameStep
    /\ UNCHANGED exportVars

AnimNext ==
    \/ \E l \in Loaders : LoadStart(l)
    \/ \E l \in Loaders, ok \in BOOLEAN : LoadHead(l, ok)
    \/ \E l \in Loaders, ok \in BOOLEAN : LoadFetch(l, ok)
    \/ \E l \in Loaders : LoadFinish(l)
    \/ \E f \in FrameObjs : FrameLoaded(f)
    \/ StartAnimation
    \/ TimerTick
    \/ \E p \in pending : ShowFrameResume(p)
    \/ StopAnimation
    \/ ResetSimulation

\* One discovery at a time: loadWildfireFrames is not called again, and the
\* simulation is not reset, while a call is suspended on a probe or a fetch.
\* The calls follow one another, so one loader stands for all of them.
NoLoadRunning == \A l \in Loaders : loadPc[l] \in {"idle", "done"}

Load1Next ==
    \/ NoLoadRunning /\ LoadStart("l1")
    \/ \E l \in Loaders, ok \in BOOLEAN : LoadHead(l, ok)
    \/ \E l \in Loaders, ok \in BOOLEAN : LoadFetch(l, ok)
    \/ \E l \in Loaders : LoadFinish(l)
    \/ \E f \in FrameObjs : FrameLoaded(f)
    \/ StartAnimation
    \/ TimerTick
    \/ \E p \in pending : ShowFrameResume(p)
    \/ StopAnimation
    \/ NoLoadRunning /\ ResetSimulation

\* One discovery at a time, with resetSimulation called at any moment, also while
\* the discovery is suspended on a probe or a fetch.
ResetNext ==
    \/ LoadStart("l1")
    \/ \E l \in Loaders, ok \in BOOLEAN : LoadHead(l, ok)
    \/ \E l \in Loaders, ok \in BOOLEAN : LoadFetch(l, ok)
    \/ \E l \in Loaders : LoadFinish(l)
    \/ \E f \in FrameObjs : FrameLoaded(f)
    \/ StartAnimation
    \/ TimerTick
    \/ \E p \in pending : ShowFrameResume(p)
    \/ StopAnimation
    \/ ResetSimulation

\* ================================================================= Part II
\* Resolutions (calls of handleCountySelectionForGEE) that the model follows;
\* they may run one after the other or interleave at their suspension points.
Runs == {1, 2}
\* County keys `${countyName}_${stateAbbr}` the user can select.
Keys == {"Maricopa_AZ", "Dade_FL"}
\* JavaScript null and undefined.
Null == "null"

NoLayer == [kind |-> "none", run |-> 0]
FinalLayerOf(r) == [kind |-> "final", run |-> r]
PreviewLayerOf(r) == [kind |-> "preview", run |-> r]

\* appState.currentExportTask before any export was started.
NoTask == [id |-> Null, countyKey |-> Null, status |-> Null, localUrl |-> Null]

\* The template `/exports/${key}.tif`; an absent key prints as "undefined".
ExportsPath(key) ==
    IF key = "Maricopa_AZ" THEN "/exports/Maricopa_AZ.tif"
    ELSE IF key = "Dade_FL" THEN "/exports/Dade_FL.tif"
    ELSE "/exports/undefined.tif"

\* `${CONFIG.API_BASE_URL}/exports/${encodeURIComponent(countyKey)}.tif`
ServedUrl(key) ==
    IF key = "Maricopa_AZ" THEN "API/exports/Maricopa_AZ.tif"
    ELSE IF key = "Dade_FL" THEN "API/exports/Dade_FL.tif"
    ELSE "API/exports/undefined.tif"

\* What startForestExport can return: null (ok = FALSE: transport failure or HTTP
\* error, after its alert) or the JSON body of the job service.
NoStartResponse ==
    [ok |-> FALSE, status |-> Null, task_id |-> Null, filename_key |-> Null,
     url |-> Null, local_path |-> Null]
\* The service answers for the county it was asked about: filename_key is that
\* county's key, or absent.
StartResponses(key) ==
    {NoStartResponse} \cup
    [ok : {TRUE}, status : {"COMPLETED", "PROCESSING", "PENDING", Null},
     task_id : {Null, "T1"}, filename_key : {key, Null},
     url : {Null, "https://host/exports/x.tif"}, local_path : {Null, "/data/x.tif"}]

\* What checkExportStatus can return: null (ok = FALSE) or the JSON body.
NoStatusResponse == [ok |-> FALSE, status |-> Null, url |-> Null, local_path |-> Null]
StatusResponses ==
    {NoStatusResponse} \cup
    [ok : {TRUE}, status : {"COMPLETED", "PROCESSING", "FAILED", "RUNNING"},
     url : {Null, "https://host/exports/x.tif"}, local_path : {Null, "/data/x.tif"}]

\* What getGEEClippedLayer can return: a tile url, null without a url field, or
\* null after a failure (with its alert).
PreviewResults == {"tiles", "nourl", "error"}

Toast(msg, isError) == [kind |-> "toast", msg |-> msg, isError |-> isError]
Alert(msg) == [kind |-> "alert", msg |-> msg, isError |-> FALSE]

IdleRun ==
    [pc |-> "idle", countyKey |-> Null, reqKey |-> Null, previewLayer |-> FALSE,
     attempts |-> 0, finalStatus |-> Null, task |-> NoTask, fileUrl |-> Null]

\* Calls of checkForestDataStatus and interval sleeps begun by a resolution,
\* whether its start response said PROCESSING and carried a task_id, and whether
\* every status answer it has handled so far named a status the client knows.
NoHist == [nChecks |-> 0, nSleeps |-> 0, startedProcessing |-> FALSE, allProcessing |-> TRUE]

\* The locals of a call that has returned are gone; what is kept of them is history.
Returned(rec, finalStatus) ==
    [IdleRun EXCEPT !.pc = "done", !.finalStatus = finalStatus,
                    !.previewLayer = rec.previewLayer]

\* No on-demand call of checkForestDataStatus has been made.  A call that has
\* issued its request is at "checkWait" with the record it read; a call that has
\* returned is at "returned" with its return value.
NoCall == [pc |-> "idle", task |-> NoTask, ret |-> Null]

ExportInit ==
    /\ currentCountyKey = Null
    /\ currentExportTask = NoTask
    /\ currentGEEForestFileUrl = Null
    /\ geeLayerUrl = Null
    /\ forestLayer = NoLayer
    /\ geoRaster = 0
    /\ geotiffLoaded = FALSE
    /\ mapLayers = {}
    /\ loaderShown = FALSE
    /\ run = [r \in Runs |-> IdleRun]
    /\ notes = [r \in Runs |-> <<>>]
    /\ hist = [r \in Runs |-> NoHist]
    /\ onDemand = NoCall
    /\ tornDown = {}

\* --------------------------------------------- Export Task Orchestrator
\* startForestDataExport, line 115: the address of a cache hit.
StartFileUrl(resp) ==
    IF resp.url # Null THEN resp.url
    ELSE IF resp.local_path # Null THEN resp.local_path
    ELSE ExportsPath(resp.filename_key)

\* A start handler that leaves an accepted export PENDING.
TaskAfterStartKeepsPending(resp) ==
    IF ~resp.ok \/ resp.status = Null
    THEN [id |-> Null, countyKey |-> Null, status |-> "FAILED", localUrl |-> Null]
    ELSE IF resp.status = "COMPLETED"
    THEN [id |-> Null, countyKey |-> resp.filename_key, status |-> "COMPLETED",
          localUrl |-> StartFileUrl(resp)]
    ELSE IF resp.status = "PROCESSING"
    THEN [id |-> resp.task_id, countyKey |-> resp.filename_key, status |-> "PENDING",
          localUrl |-> Null]
    ELSE [id |-> Null, countyKey |-> Null, status |-> "FAILED", localUrl |-> Null]

\* A start handler that takes every status other than COMPLETED for an accepted export.
TaskAfterStartAcceptsAnyStatus(resp) ==
    IF ~resp.ok \/ resp.status = Null
    THEN [id |-> Null, countyKey |-> Null, status |-> "FAILED", localUrl |-> Null]
    ELSE IF resp.status = "COMPLETED"
    THEN [id |-> Null, countyKey |-> resp.filename_key, status |-> "COMPLETED",
          localUrl |-> StartFileUrl(resp)]
    ELSE [id |-> resp.task_id, countyKey |-> resp.filename_key, status |-> "PROCESSING",
          localUrl |-> Null]

\* startForestDataExport, lines 109-154: the task record after the start response.
TaskAfterStart(resp) ==
    IF ~resp.ok \/ resp.status = Null
    THEN [id |-> Null, countyKey |-> Null, status |-> "FAILED", localUrl |-> Null]
    ELSE IF resp.status = "COMPLETED"
    THEN [id |-> Null, countyKey |-> resp.filename_key, status |-> "COMPLETED",
          localUrl |-> StartFileUrl(resp)]
    ELSE IF resp.status = "PROCESSING"
    THEN [id |-> resp.task_id, countyKey |-> resp.filename_key, status |-> "PROCESSING",
          localUrl |-> Null]
    ELSE [id |-> Null, countyKey |-> Null, status |-> "FAILED", localUrl |-> Null]

\* lines 118-120: the published file address after the start response.
FileUrlAfterStart(resp, old) ==
    IF resp.ok /\ resp.status = "COMPLETED" THEN StartFileUrl(resp) ELSE old

\* The alerts of startForestExport (APIClient line 196) and startForestDataExport
\* (lines 141, 148, 153).
AlertsOfStart(resp) ==
    IF ~resp.ok
    THEN <<Alert("Error starting forest data export."), Alert("Failed to start the export task.")>>
    ELSE IF resp.status = "COMPLETED" THEN <<>>
    ELSE IF resp.status = "PROCESSING" THEN <<Alert("Starting forest data export.")>>
    ELSE <<Alert("Failed to start the export task.")>>

\* A status check without the early return for a COMPLETED task (line 167).
EarlyStatusPollsCompleted(task) ==
    IF task.status = Null \/ task.status = "NONE" THEN "NONE"
    ELSE IF task.status = "PROCESSING" /\ task.id = Null THEN "FAILED"
    ELSE "REQUEST"

\* checkForestDataStatus, lines 161-171: the answer given without a request, or
\* "REQUEST" when the status check is issued.
EarlyStatus(task) ==
    IF task.status = Null \/ task.status = "NONE" THEN "NONE"
    ELSE IF task.status = "COMPLETED" THEN "COMPLETED"
    ELSE IF task.status = "PROCESSING" /\ task.id = Null THEN "FAILED"
    ELSE "REQUEST"

\* An address derivation that prefers the local path to the url.
StatusFileUrlLocalFirst(resp, task) ==
    IF resp.local_path # Null THEN resp.local_path
    ELSE IF resp.url # Null THEN resp.url
    ELSE ExportsPath(task.countyKey)

\* checkForestDataStatus, line 183: the address of a finished export.
StatusFileUrl(resp, task) ==
    IF resp.url # Null THEN resp.url
    ELSE IF resp.local_path # Null THEN resp.local_path
    ELSE ExportsPath(task.countyKey)

\* A status check that reports a status it does not know as a failure.
StatusReturnedUnknownFails(resp) ==
    IF ~resp.ok THEN "FAILED"
    ELSE IF resp.status \in {"COMPLETED", "PROCESSING"} THEN resp.status
    ELSE "FAILED"

\* checkForestDataStatus, lines 178-216: its return value for a response.
StatusReturned(resp) ==
    IF ~resp.ok THEN "FAILED"
    ELSE IF resp.status \in {"COMPLETED", "PROCESSING", "FAILED"} THEN resp.status
    ELSE "UNKNOWN"

\* A status handler that resolves the address as soon as the service answers,
\* whatever the status.
TaskAfterStatusAddressEarly(resp, task, old) ==
    IF ~resp.ok THEN [task EXCEPT !.status = "FAILED"]
    ELSE IF resp.status \in {"COMPLETED", "PROCESSING", "FAILED"}
    THEN [task EXCEPT !.status = resp.status, !.localUrl = StatusFileUrl(resp, task)]
    ELSE old

\* lines 178-216: the task record written for a response; task is the record the
\* call read at line 161, old the record at the time the response is handled.
TaskAfterStatus(resp, task, old) ==
    IF ~resp.ok THEN [task EXCEPT !.status = "FAILED"]
    ELSE IF resp.status = "COMPLETED"
    THEN [task EXCEPT !.status = "COMPLETED", !.localUrl = StatusFileUrl(resp, task)]
    ELSE IF resp.status = "PROCESSING" THEN [task EXCEPT !.status = "PROCESSING"]
    ELSE IF resp.status = "FAILED" THEN [task EXCEPT !.status = "FAILED"]
    ELSE old

\* A status check that publishes a file address only when none is published yet.
FileUrlAfterStatusKeepsFirst(resp, task, old) ==
    IF resp.ok /\ resp.status = "COMPLETED" /\ old = Null THEN StatusFileUrl(resp, task) ELSE old

\* lines 186-187: the published file address after a status response.
FileUrlAfterStatus(resp, task, old) ==
    IF resp.ok /\ resp.status = "COMPLETED" THEN StatusFileUrl(resp, task) ELSE old

\* ---------------------------------------------- Fallback Layer Resolver
\* A loop condition that admits one attempt too many.
LoopContinuesOffByOne(attempts) == attempts <= MAX_ATTEMPTS

\* ForestLayer.js line 113: the loop condition.
LoopContinues(attempts) == attempts < MAX_ATTEMPTS

\* A resolver that reports a timeout as an error whether or not a preview is shown.
ResolutionToastTimeoutAsError(finalStatus, preview) ==
    IF finalStatus = "FAILED"
    THEN IF preview THEN Toast("Export failed, showing preview (if available).", TRUE)
         ELSE Toast("Failed to generate forest GeoTIFF.", TRUE)
    ELSE Toast("Timed out waiting for forest data.", TRUE)

\* A resolver with the test of previewLayer inverted in the FAILED branch.
ResolutionToastFailedInverted(finalStatus, preview) ==
    IF finalStatus = "FAILED"
    THEN IF ~preview THEN Toast("Export failed, showing preview (if available).", TRUE)
         ELSE Toast("Failed to generate forest GeoTIFF.", TRUE)
    ELSE IF preview
         THEN Toast("Export is taking longer than expected; preview is shown.", FALSE)
         ELSE Toast("Timed out waiting for forest data.", TRUE)

\* lines 176-197: the notification of a failed or timed-out resolution.
ResolutionToast(finalStatus, preview) ==
    IF finalStatus = "FAILED"
    THEN IF preview THEN Toast("Export failed, showing preview (if available).", TRUE)
         ELSE Toast("Failed to generate forest GeoTIFF.", TRUE)
    ELSE IF preview
         THEN Toast("Export is taking longer than expected; preview is shown.", FALSE)
         ELSE Toast("Timed out waiting for forest data.", TRUE)

\* lines 117-127 and 130-186: what the loop does with the status of one attempt.
\* rec, nts, h are the locals, notes and history of r so far; fileNow is the
\* published file address at this moment.
AfterCheck(r, rec, nts, h, status, fileNow) ==
    IF status = "COMPLETED"
    THEN /\ run' = [run EXCEPT ![r] =
                      [rec EXCEPT !.pc = "finalFetch", !.finalStatus = "COMPLETED",
                                  !.task = NoTask,
                                  !.fileUrl = IF fileNow # Null THEN fileNow
                                              ELSE ServedUrl(rec.countyKey)]]
         /\ notes' = [notes EXCEPT ![r] = nts]
         /\ hist' = [hist EXCEPT ![r] = h]
         /\ UNCHANGED loaderShown
    ELSE IF status = "FAILED"
    THEN /\ run' = [run EXCEPT ![r] = Returned(rec, "FAILED")]
         /\ notes' = [notes EXCEPT ![r] =
                        Append(nts, ResolutionToast("FAILED", rec.previewLayer))]
         /\ hist' = [hist EXCEPT ![r] = h]
         /\ loaderShown' = FALSE
    ELSE /\ run' = [run EXCEPT ![r] = [rec EXCEPT !.pc = "sleep", !.task = NoTask]]
         /\ notes' = [notes EXCEPT ![r] = nts]
         /\ hist' = [hist EXCEPT ![r] = [h EXCEPT !.nSleeps = @ + 1]]
         /\ UNCHANGED loaderShown

\* lines 114-116 with checkForestDataStatus lines 161-176: one more attempt, up to
\* the request of the status check or, when no request is made, to its outcome.
BeginAttempt(r, rec, nts, h) ==
    LET rec1 == [rec EXCEPT !.attempts = @ + 1]
        h1 == [h EXCEPT !.nChecks = @ + 1]
        early == EarlyStatus(currentExportTask)
    IN  IF early = "REQUEST"
        THEN /\ run' = [run EXCEPT ![r] =
                          [rec1 EXCEPT !.pc = "checkWait", !.task = currentExportTask]]
             /\ notes' = [notes EXCEPT ![r] = nts]
             /\ hist' = [hist EXCEPT ![r] = h1]
             /\ UNCHANGED loaderShown
        ELSE AfterCheck(r, rec1, nts, h1, early, currentGEEForestFileUrl)

\* Resolutions whose call of handleCountySelectionForGEE has not returned.
InFlight == {r \in Runs : run[r].pc \notin {"idle", "done"}}

\* A reset of the previous state that forgets the forest layer on the map
\* (lines 50-53 reduced to forestLayer = null).
HandleStartKeepsLayer(r, k) ==
    /\ run[r].pc = "idle"
    /\ IF k = Null
       THEN /\ run' = [run EXCEPT ![r] = Returned(@, Null)]
            /\ notes' = [notes EXCEPT ![r] =
                           Append(@, Toast("Cannot identify selected county.", TRUE))]
            /\ loaderShown' = FALSE
            /\ UNCHANGED <<currentCountyKey, forestLayer, geoRaster, geotiffLoaded, mapLayers>>
       ELSE /\ currentCountyKey' = k
            /\ geotiffLoaded' = FALSE
            /\ UNCHANGED mapLayers
            /\ forestLayer' = NoLayer
            /\ geoRaster' = 0
            /\ loaderShown' = TRUE
            /\ run' = [run EXCEPT ![r] = [@ EXCEPT !.pc = "head", !.countyKey = k]]
            /\ UNCHANGED notes
    /\ UNCHANGED <<currentExportTask, currentGEEForestFileUrl, geeLayerUrl, hist>>
    /\ UNCHANGED onDemand
    /\ tornDown' = tornDown \cap InFlight'
    /\ UNCHANGED animVars

\* lines 24-61: a county is selected; k = Null is a feature that cannot be identified.
HandleStart(r, k) ==
    /\ run[r].pc = "idle"
    /\ IF k = Null
       THEN /\ run' = [run EXCEPT ![r] = Returned(@, Null)]
            /\ notes' = [notes EXCEPT ![r] =
                           Append(@, Toast("Cannot identify selected county.", TRUE))]
            /\ loaderShown' = FALSE
            /\ UNCHANGED <<currentCountyKey, forestLayer, geoRaster, geotiffLoaded, mapLayers>>
       ELSE /\ currentCountyKey' = k
            /\ geotiffLoaded' = FALSE
            /\ mapLayers' = mapLayers \ {forestLayer}
            /\ forestLayer' = NoLayer
            /\ geoRaster' = 0
            /\ loaderShown' = TRUE
            /\ run' = [run EXCEPT ![r] = [@ EXCEPT !.pc = "head", !.countyKey = k]]
            /\ UNCHANGED notes
    /\ UNCHANGED <<currentExportTask, currentGEEForestFileUrl, geeLayerUrl, hist>>
    /\ UNCHANGED onDemand
    /\ tornDown' = tornDown \cap InFlight'
    /\ UNCHANGED animVars

\* lines 24-31 and 199-203: the feature carries no properties; the TypeError of
\* line 31 is caught by the outer handler, which hides the loader and reports.
HandleThrows(r) ==
    /\ run[r].pc = "idle"
    /\ run' = [run EXCEPT ![r] = Returned(@, Null)]
    /\ notes' = [notes EXCEPT ![r] = Append(@, Toast("Error loading forest layer.", TRUE))]
    /\ loaderShown' = FALSE
    /\ UNCHANGED <<currentCountyKey, currentExportTask, currentGEEForestFileUrl, geeLayerUrl,
                   forestLayer, geoRaster, geotiffLoaded, mapLayers, hist>>
    /\ UNCHANGED onDemand
    /\ tornDown' = tornDown \cap InFlight'
    /\ UNCHANGED animVars

\* DataManager lines 97-107: startForestDataExport up to its await.
StartExportCall(r) ==
    IF currentCountyKey = Null
    THEN /\ currentExportTask' =
                [id |-> Null, countyKey |-> Null, status |-> "FAILED", localUrl |-> Null]
         /\ notes' = [notes EXCEPT ![r] = Append(@, Alert("Failed to start the export task."))]
         /\ run' = [run EXCEPT ![r] = [@ EXCEPT !.pc = "previewWait"]]
    ELSE /\ currentExportTask' =
                [id |-> Null, countyKey |-> currentCountyKey, status |-> "PENDING",
                 localUrl |-> Null]
         /\ run' = [run EXCEPT ![r] = [@ EXCEPT !.pc = "startWait", !.reqKey = currentCountyKey]]
         /\ UNCHANGED notes

\* lines 60-62 and 89-95: the cache probe answers; ok = FALSE is a miss or a failure.
CacheHead(r, ok) ==
    /\ run[r].pc = "head"
    /\ IF ok
       THEN /\ run' = [run EXCEPT ![r] = [@ EXCEPT !.pc = "cacheFetch"]]
            /\ UNCHANGED <<currentExportTask, notes>>
       ELSE StartExportCall(r)
    /\ UNCHANGED <<currentCountyKey, currentGEEForestFileUrl, geeLayerUrl, forestLayer,
                   geoRaster, geotiffLoaded, mapLayers, loaderShown, hist>>
    /\ UNCHANGED onDemand
    /\ tornDown' = tornDown \cap InFlight'
    /\ UNCHANGED animVars

\* A cache hit without the return of line 87: the raster is rendered and the
\* export is started all the same.
CacheFetchFallsThrough(r, ok) ==
    /\ run[r].pc = "cacheFetch"
    /\ IF ok
       THEN /\ geoRaster' = r
            /\ mapLayers' = (mapLayers \ {forestLayer}) \cup {FinalLayerOf(r)}
            /\ forestLayer' = FinalLayerOf(r)
            /\ geotiffLoaded' = TRUE
            /\ loaderShown' = FALSE
            /\ StartExportCall(r)
       ELSE /\ StartExportCall(r)
            /\ UNCHANGED <<geoRaster, mapLayers, forestLayer, geotiffLoaded, loaderShown>>
    /\ UNCHANGED <<currentCountyKey, currentGEEForestFileUrl, geeLayerUrl, hist>>
    /\ UNCHANGED onDemand
    /\ tornDown' = tornDown \cap InFlight'
    /\ UNCHANGED animVars

\* lines 63-95: the cached raster is fetched and decoded, or that fails.
CacheFetch(r, ok) ==
    /\ run[r].pc = "cacheFetch"
    /\ IF ok
       THEN /\ geoRaster' = r
            /\ mapLayers' = (mapLayers \ {forestLayer}) \cup {FinalLayerOf(r)}
            /\ forestLayer' = FinalLayerOf(r)
            /\ geotiffLoaded' = TRUE
            /\ loaderShown' = FALSE
            /\ notes' = [notes EXCEPT ![r] =
                           Append(@, Toast("Forest layer map loaded successfully.", FALSE))]
            /\ run' = [run EXCEPT ![r] = Returned(@, Null)]
            /\ UNCHANGED currentExportTask
       ELSE /\ StartExportCall(r)
            /\ UNCHANGED <<geoRaster, mapLayers, forestLayer, geotiffLoaded, loaderShown>>
    /\ UNCHANGED <<currentCountyKey, currentGEEForestFileUrl, geeLayerUrl, hist>>
    /\ UNCHANGED onDemand
    /\ tornDown' = tornDown \cap InFlight'
    /\ UNCHANGED animVars

\* DataManager lines 107-154, then ForestLayer line 98 up to the preview request.
StartResponse(r, resp) ==
    /\ run[r].pc = "startWait"
    /\ currentExportTask' = TaskAfterStart(resp)
    /\ currentGEEForestFileUrl' = FileUrlAfterStart(resp, currentGEEForestFileUrl)
    /\ notes' = [notes EXCEPT ![r] = @ \o AlertsOfStart(resp)]
    /\ run' = [run EXCEPT ![r] = [@ EXCEPT !.pc = "previewWait", !.reqKey = Null]]
    /\ hist' = [hist EXCEPT ![r] =
                  [@ EXCEPT !.startedProcessing =
                       resp.ok /\ resp.status = "PROCESSING" /\ resp.task_id # Null]]
    /\ UNCHANGED <<currentCountyKey, geeLayerUrl, forestLayer, geoRaster, geotiffLoaded,
                   mapLayers, loaderShown>>
    /\ UNCHANGED onDemand
    /\ tornDown' = tornDown \cap InFlight'
    /\ UNCHANGED animVars

\* DataManager lines 73-87 and ForestLayer lines 98-116: the preview answer, the
\* preview layer, and the first attempt of the poll loop.
PreviewResult(r, res) ==
    /\ run[r].pc = "previewWait"
    /\ geeLayerUrl' = IF res = "tiles" THEN "tiles" ELSE geeLayerUrl
    /\ mapLayers' = IF res = "tiles" THEN mapLayers \cup {PreviewLayerOf(r)} ELSE mapLayers
    /\ BeginAttempt(r, [run[r] EXCEPT !.previewLayer = (res = "tiles"), !.attempts = 0,
                                      !.finalStatus = Null],
                    IF res = "error"
                    THEN Append(notes[r], Alert("Error fetching GEE layer."))
                    ELSE notes[r],
                    hist[r])
    /\ UNCHANGED <<currentCountyKey, currentExportTask, currentGEEForestFileUrl, forestLayer,
                   geoRaster, geotiffLoaded>>
    /\ UNCHANGED onDemand
    /\ tornDown' = tornDown \cap InFlight'
    /\ UNCHANGED animVars

\* DataManager lines 176-216 and ForestLayer lines 116-127: the status answer.
CheckResponse(r, resp) ==
    /\ run[r].pc = "checkWait"
    /\ currentExportTask' = TaskAfterStatus(resp, run[r].task, currentExportTask)
    /\ currentGEEForestFileUrl' =
            FileUrlAfterStatus(resp, run[r].task, currentGEEForestFileUrl)
    /\ AfterCheck(r, run[r], notes[r],
                  [hist[r] EXCEPT !.allProcessing = @ /\ StatusReturned(resp) # "UNKNOWN"],
                  StatusReturned(resp),
                  FileUrlAfterStatus(resp, run[r].task, currentGEEForestFileUrl))
    /\ UNCHANGED <<currentCountyKey, geeLayerUrl, forestLayer, geoRaster, geotiffLoaded,
                   mapLayers>>
    /\ UNCHANGED onDemand
    /\ tornDown' = tornDown \cap InFlight'
    /\ UNCHANGED animVars

\* A poll loop that times out without hiding the loader (lines 188 and 192 left out).
SleepDoneKeepsLoader(r) ==
    /\ run[r].pc = "sleep"
    /\ IF LoopContinues(run[r].attempts)
       THEN BeginAttempt(r, run[r], notes[r], hist[r])
       ELSE /\ run' = [run EXCEPT ![r] = Returned(@, "TIMEOUT")]
            /\ notes' = [notes EXCEPT ![r] =
                           Append(@, ResolutionToast(Null, run[r].previewLayer))]
            /\ UNCHANGED loaderShown
            /\ UNCHANGED hist
    /\ UNCHANGED <<currentCountyKey, currentExportTask, currentGEEForestFileUrl, geeLayerUrl,
                   forestLayer, geoRaster, geotiffLoaded, mapLayers>>
    /\ UNCHANGED onDemand
    /\ tornDown' = tornDown \cap InFlight'
    /\ UNCHANGED animVars

\* ForestLayer lines 126, 113 and 186-197: the interval sleep ends; the loop goes
\* on, or it is exhausted and the resolution times out.
SleepDone(r) ==
    /\ run[r].pc = "sleep"
    /\ IF LoopContinues(run[r].attempts)
       THEN BeginAttempt(r, run[r], notes[r], hist[r])
       ELSE /\ run' = [run EXCEPT ![r] = Returned(@, "TIMEOUT")]
            /\ notes' = [notes EXCEPT ![r] =
                           Append(@, ResolutionToast(Null, run[r].previewLayer))]
            /\ loaderShown' = FALSE
            /\ UNCHANGED hist
    /\ UNCHANGED <<currentCountyKey, currentExportTask, currentGEEForestFileUrl, geeLayerUrl,
                   forestLayer, geoRaster, geotiffLoaded, mapLayers>>
    /\ UNCHANGED onDemand
    /\ tornDown' = tornDown \cap InFlight'
    /\ UNCHANGED animVars

\* A final fetch that forgets to remove the preview layer (lines 157-159).
FinalFetchKeepsPreview(r, ok) ==
    /\ run[r].pc = "finalFetch"
    /\ IF ok
       THEN /\ geoRaster' = r
            /\ mapLayers' = (mapLayers \ {forestLayer}) \cup {FinalLayerOf(r)}
            /\ forestLayer' = FinalLayerOf(r)
            /\ geotiffLoaded' = TRUE
            /\ notes' = [notes EXCEPT ![r] =
                           Append(@, Toast("Forest layer map loaded successfully.", FALSE))]
       ELSE /\ notes' = [notes EXCEPT ![r] =
                           Append(@, IF run[r].previewLayer
                                     THEN Toast("Preview available, but final GeoTIFF failed to load.", TRUE)
                                     ELSE Toast("Failed to load forest layer.", TRUE))]
            /\ UNCHANGED <<geoRaster, mapLayers, forestLayer, geotiffLoaded>>
    /\ loaderShown' = FALSE
    /\ run' = [run EXCEPT ![r] = Returned(@, "COMPLETED")]
    /\ UNCHANGED <<currentCountyKey, currentExportTask, currentGEEForestFileUrl, geeLayerUrl,
                   hist>>
    /\ UNCHANGED onDemand
    /\ tornDown' = tornDown \cap InFlight'
    /\ UNCHANGED animVars

\* A final fetch that takes the preview layer off the map when the raster fails.
FinalFetchFailureDropsPreview(r, ok) ==
    /\ run[r].pc = "finalFetch"
    /\ IF ok
       THEN /\ geoRaster' = r
            /\ mapLayers' = ((mapLayers \ {forestLayer}) \cup {FinalLayerOf(r)})
                              \ {PreviewLayerOf(r)}
            /\ forestLayer' = FinalLayerOf(r)
            /\ geotiffLoaded' = TRUE
            /\ notes' = [notes EXCEPT ![r] =
                           Append(@, Toast("Forest layer map loaded successfully.", FALSE))]
       ELSE /\ notes' = [notes EXCEPT ![r] =
                           Append(@, IF run[r].previewLayer
                                     THEN Toast("Preview available, but final GeoTIFF failed to load.", TRUE)
                                     ELSE Toast("Failed to load forest layer.", TRUE))]
            /\ mapLayers' = mapLayers \ {PreviewLayerOf(r)}
            /\ UNCHANGED <<geoRaster, forestLayer, geotiffLoaded>>
    /\ loaderShown' = FALSE
    /\ run' = [run EXCEPT ![r] = Returned(@, "COMPLETED")]
    /\ UNCHANGED <<currentCountyKey, currentExportTask, currentGEEForestFileUrl, geeLayerUrl,
                   hist>>
    /\ UNCHANGED onDemand
    /\ tornDown' = tornDown \cap InFlight'
    /\ UNCHANGED animVars

\* ForestLayer lines 134-175: the final raster is fetched and decoded, or that fails.
FinalFetch(r, ok) ==
    /\ run[r].pc = "finalFetch"
    /\ IF ok
       THEN /\ geoRaster' = r
            /\ mapLayers' = ((mapLayers \ {forestLayer}) \cup {FinalLayerOf(r)})
                              \ {PreviewLayerOf(r)}
            /\ forestLayer' = FinalLayerOf(r)
            /\ geotiffLoaded' = TRUE
            /\ notes' = [notes EXCEPT ![r] =
                           Append(@, Toast("Forest layer map loaded successfully.", FALSE))]
       ELSE /\ notes' = [notes EXCEPT ![r] =
                           Append(@, IF run[r].previewLayer
                                     THEN Toast("Preview available, but final GeoTIFF failed to load.", TRUE)
                                     ELSE Toast("Failed to load forest layer.", TRUE))]
            /\ UNCHANGED <<geoRaster, mapLayers, forestLayer, geotiffLoaded>>
    /\ loaderShown' = FALSE
    /\ run' = [run EXCEPT ![r] = Returned(@, "COMPLETED")]
    /\ UNCHANGED <<currentCountyKey, currentExportTask, currentGEEForestFileUrl, geeLayerUrl,
                   hist>>
    /\ UNCHANGED onDemand
    /\ tornDown' = tornDown \cap InFlight'
    /\ UNCHANGED animVars

\* ForestLayer lines 214-227.
ResetForest ==
    /\ mapLayers' = mapLayers \ {forestLayer}
    /\ forestLayer' = NoLayer
    /\ geoRaster' = 0
    /\ geotiffLoaded' = FALSE
    /\ tornDown' = tornDown \cup InFlight
    /\ UNCHANGED <<currentCountyKey, currentExportTask, currentGEEForestFileUrl, geeLayerUrl,
                   loaderShown, run, notes, hist>>
    /\ UNCHANGED onDemand
    /\ UNCHANGED animVars

\* checkForestDataStatus called on demand, lines 160-176: the early answers, or
\* the request of the status check.
CheckStatusCall ==
    /\ onDemand.pc \in {"idle", "returned"}
    /\ onDemand' = IF EarlyStatus(currentExportTask) = "REQUEST"
                   THEN [pc |-> "checkWait", task |-> currentExportTask, ret |-> Null]
                   ELSE [pc |-> "returned", task |-> NoTask,
                         ret |-> EarlyStatus(currentExportTask)]
    /\ UNCHANGED <<currentCountyKey, currentExportTask, currentGEEForestFileUrl, geeLayerUrl,
                   forestLayer, geoRaster, geotiffLoaded, mapLayers, loaderShown, run, notes,
                   hist>>
    /\ UNCHANGED tornDown
    /\ UNCHANGED animVars

\* lines 176-216: the status answer to the on-demand call.
CheckStatusResponse(resp) ==
    /\ onDemand.pc = "checkWait"
    /\ currentExportTask' = TaskAfterStatus(resp, onDemand.task, currentExportTask)
    /\ currentGEEForestFileUrl' =
            FileUrlAfterStatus(resp, onDemand.task, currentGEEForestFileUrl)
    /\ onDemand' = [pc |-> "returned", task |-> NoTask, ret |-> StatusReturned(resp)]
    /\ UNCHANGED <<currentCountyKey, geeLayerUrl, forestLayer, geoRaster, geotiffLoaded,
                   mapLayers, loaderShown, run, notes, hist>>
    /\ UNCHANGED tornDown
    /\ UNCHANGED animVars

\* Two resolutions, interleaving at their suspension points.  To keep the state
\* space small the job service of this specification names no url or local_path,
\* answers only statuses the client knows, and ends every export within
\* MaxConcPolls status checks.
ConcStartResponses(key) ==
    {x \in StartResponses(key) : x.url = Null /\ x.local_path = Null /\ x.status # "PENDING"}
ConcStatusResponses(attempts) ==
    {x \in StatusResponses :
        /\ x.url = Null /\ x.local_path = Null /\ x.status # "RUNNING"
        /\ attempts < MaxConcPolls \/ StatusReturned(x) \in {"COMPLETED", "FAILED"}}

ExportNext ==
    \/ \E r \in Runs, k \in Keys : HandleStart(r, k)
    \/ \E r \in Runs, ok \in BOOLEAN : CacheHead(r, ok)
    \/ \E r \in Runs, ok \in BOOLEAN : CacheFetch(r, ok)
    \/ \E r \in Runs : \E resp \in ConcStartResponses(run[r].reqKey) : StartResponse(r, resp)
    \/ \E r \in Runs, res \in PreviewResults \ {"error"} : PreviewResult(r, res)
    \/ \E r \in Runs : \E resp \in ConcStatusResponses(run[r].attempts) : CheckResponse(r, resp)
    \/ \E r \in Runs : SleepDone(r)
    \/ \E r \in Runs, ok \in BOOLEAN : FinalFetch(r, ok)
    \/ ResetForest

\* One resolution alone.
Export1Next ==
    \/ \E k \in Keys \cup {Null} : HandleStart(1, k)
    \/ HandleThrows(1)
    \/ \E ok \in BOOLEAN : CacheHead(1, ok)
    \/ \E ok \in BOOLEAN : CacheFetch(1, ok)
    \/ \E resp \in StartResponses(run[1].reqKey) : StartResponse(1, resp)
    \/ \E res \in PreviewResults : PreviewResult(1, res)
    \/ \E resp \in StatusResponses : CheckResponse(1, resp)
    \/ SleepDone(1)
    \/ \E ok \in BOOLEAN : FinalFetch(1, ok)
    \/ ResetForest

\* One resolution, and calls of checkForestDataStatus made on demand at any time.
\* The job service ends the export of the resolution within MaxConcPolls status
\* checks; the answers to the on-demand calls are not restricted.
OnDemandNext ==
    \/ \E k \in Keys \cup {Null} : HandleStart(1, k)
    \/ HandleThrows(1)
    \/ \E ok \in BOOLEAN : CacheHead(1, ok)
    \/ \E ok \in BOOLEAN : CacheFetch(1, ok)
    \/ \E resp \in StartResponses(run[1].reqKey) : StartResponse(1, resp)
    \/ \E res \in PreviewResults : PreviewResult(1, res)
    \/ \E resp \in ConcStatusResponses(run[1].attempts) : CheckResponse(1, resp)
    \/ SleepDone(1)
    \/ \E ok \in BOOLEAN : FinalFetch(1, ok)
    \/ ResetForest
    \/ CheckStatusCall
    \/ \E resp \in StatusResponses : CheckStatusResponse(resp)

\* ==================================================================== claims
VisibleFrames == {f \in FramesOf(wildfireFrames) : opacity[f] # 0}

\* C1: within one playback run the frames revealed are 0, 1, 2, ... in this order,
\* without a skip or a repeat, however the readiness signals and the ticks interleave.
C1_RevealsInOrder == \A i \in 1..Len(revealed) : revealed[i] = i - 1

\* C2: during playback at most one frame of wildfireFrames has a non-zero opacity.
C2_AtMostOneVisible == wildfireAnimTimer # 0 => Cardinality(VisibleFrames) <= 1

\* C3: once stopAnimation has cleared the timer of a run, no showFrame call of that
\* run reveals a frame any more.
C3_NoRevealAfterStop ==
    [][\A p \in pending : p \notin pending' => p.run \notin stopped]_vars

\* C4: one resolution calls checkForestDataStatus at most MAX_ATTEMPTS times and
\* begins at most MAX_ATTEMPTS interval sleeps.
C4_PollBudget ==
    \A r \in Runs : hist[r].nChecks <= MAX_ATTEMPTS /\ hist[r].nSleeps <= MAX_ATTEMPTS

\* C4 witness: a resolution that timed out after MAX_ATTEMPTS checks and sleeps.
C4_Witness ==
    /\ run[1].pc = "done" /\ run[1].finalStatus = "TIMEOUT"
    /\ hist[1].nChecks = MAX_ATTEMPTS /\ hist[1].nSleeps = MAX_ATTEMPTS

\* C5: a status check of a PROCESSING task that gets no answer leaves the task
\* PROCESSING and the poll loop goes on to its next attempt.
C5_TransportFailureNonTerminal ==
    [][\A r \in Runs :
         (run[r].task.status = "PROCESSING" /\ CheckResponse(r, NoStatusResponse))
         => (currentExportTask'.status = "PROCESSING" /\ run'[r].pc = "sleep")]_vars

\* C6: once the task record is COMPLETED or FAILED no answer handled by
\* checkForestDataStatus changes its status.
C6_TerminalIsFinal ==
    [][\A r \in Runs, resp \in StatusResponses :
         (currentExportTask.status \in {"COMPLETED", "FAILED"} /\ CheckResponse(r, resp))
         => currentExportTask'.status = currentExportTask.status]_vars

\* The documented preference order: url, else local path, else the given path.
Preferred(url, localPath, path) ==
    IF url # Null THEN url ELSE IF localPath # Null THEN localPath ELSE path

\* C7: a start response COMPLETED sets the task COMPLETED with the address url, else
\* local path, else /exports/{key}.tif for the key the export was started for.
C7_StartAddress ==
    [][\A r \in Runs : \A resp \in StartResponses(run[r].reqKey) :
         (resp.ok /\ resp.status = "COMPLETED" /\ StartResponse(r, resp))
         => /\ currentExportTask'.status = "COMPLETED"
            /\ currentExportTask'.localUrl =
                 Preferred(resp.url, resp.local_path, ExportsPath(run[r].reqKey))]_vars

\* C8: a status answer COMPLETED for a PROCESSING task sets the task COMPLETED with
\* the address url, else local path, else /exports/{key}.tif for the task's key, and
\* checkForestDataStatus returns COMPLETED, which ends the poll loop.
C8_StatusAddress ==
    [][\A r \in Runs, resp \in StatusResponses :
         (run[r].task.status = "PROCESSING" /\ resp.ok /\ resp.status = "COMPLETED"
            /\ CheckResponse(r, resp))
         => /\ currentExportTask'.status = "COMPLETED"
            /\ currentExportTask'.countyKey = run[r].task.countyKey
            /\ currentExportTask'.localUrl =
                 Preferred(resp.url, resp.local_path, ExportsPath(run[r].task.countyKey))
            /\ run'[r].pc = "finalFetch" /\ run'[r].finalStatus = "COMPLETED"]_vars

\* C8 witness: a task with a job id was completed by a status answer that named
\* neither url nor local path.
C8_Witness ==
    /\ run[1].pc = "finalFetch"
    /\ currentExportTask.status = "COMPLETED" /\ currentExportTask.id = "T1"
    /\ currentExportTask.localUrl = "/exports/Maricopa_AZ.tif"

\* The resolution's export was accepted with a job id and every status answer so
\* far said PROCESSING.
Polling(r) ==
    /\ hist[r].startedProcessing /\ hist[r].allProcessing
    /\ \/ run[r].pc \in {"previewWait", "checkWait", "sleep"}
       \/ run[r].pc = "done" /\ run[r].finalStatus = "TIMEOUT"

\* C9: a task started by a PROCESSING response with a job id is PROCESSING, stays
\* PROCESSING while the status answers say PROCESSING, and the first COMPLETED
\* answer makes it COMPLETED with the answer's url as its address.
C9_ProcessingUntilCompleted ==
    /\ [](\A r \in Runs : Polling(r) =>
            currentExportTask.status = "PROCESSING" /\ currentExportTask.id # Null)
    /\ [][\A r \in Runs, resp \in StatusResponses :
            (Polling(r) /\ resp.ok /\ resp.status = "COMPLETED" /\ resp.url # Null
               /\ CheckResponse(r, resp))
            => /\ currentExportTask'.status = "COMPLETED"
               /\ currentExportTask'.localUrl = resp.url]_vars

\* C9 witness: three PROCESSING answers, then COMPLETED with a url.
C9_Witness ==
    /\ hist[1].startedProcessing /\ hist[1].allProcessing /\ hist[1].nChecks = 4
    /\ run[1].pc = "finalFetch"
    /\ currentExportTask.status = "COMPLETED" /\ currentExportTask.id = "T1"
    /\ currentExportTask.localUrl = "https://host/exports/x.tif"

\* C10: a task with status PROCESSING has a job id.
C10_ProcessingHasJobId ==
    currentExportTask.status = "PROCESSING" => currentExportTask.id # Null

\* C11: a start outcome that is neither COMPLETED nor PROCESSING (another status, no
\* status, no response) leaves the task FAILED without an address.
C11_StartFailure ==
    [][\A r \in Runs : \A resp \in StartResponses(run[r].reqKey) :
         (~(resp.ok /\ resp.status \in {"COMPLETED", "PROCESSING"}) /\ StartResponse(r, resp))
         => /\ currentExportTask'.status = "FAILED"
            /\ currentExportTask'.localUrl = Null]_vars

\* C11 witness: the service answered with a status that is neither COMPLETED nor
\* PROCESSING (one alert, of startForestDataExport alone) and the task is FAILED.
C11_Witness ==
    /\ run[1].pc = "previewWait"
    /\ notes[1] = <<Alert("Failed to start the export task.")>>
    /\ currentExportTask.status = "FAILED" /\ currentExportTask.localUrl = Null

\* C12 as stated: once the cache probe has reported the raster present, the run
\* ends by rendering it as the final layer; it never goes on to start an export.
C12_ProbePresentNeverExports ==
    [][\A r \in Runs :
         (run[r].pc = "cacheFetch" /\ run'[r].pc # "cacheFetch")
         => (run'[r].pc = "done" /\ forestLayer' = FinalLayerOf(r))]_vars

\* C12 amended: when the probe has reported the raster present and its fetch and
\* decode succeed, the run renders it as the final layer and ends without a start
\* request, a status check or a change of the task record; a finished run takes
\* no further step.
C12_CacheHitRenders ==
    /\ [][\A r \in Runs :
            CacheFetch(r, TRUE)
            => /\ run'[r].pc = "done"
               /\ forestLayer' = FinalLayerOf(r) /\ FinalLayerOf(r) \in mapLayers'
               /\ geotiffLoaded'
               /\ currentExportTask' = currentExportTask
               /\ hist'[r] = NoHist]_vars
    /\ [][\A r \in Runs : run[r].pc = "done" => run'[r] = run[r]]_vars

\* C12 witness: a run that ended on a cache hit; no export was ever started.
C12_Witness ==
    /\ run[1].pc = "done" /\ run[1].finalStatus = Null
    /\ forestLayer = FinalLayerOf(1) /\ FinalLayerOf(1) \in mapLayers
    /\ hist[1] = NoHist /\ currentExportTask = NoTask

\* The layers of resolution r that are on the map, its toasts, and the layers a
\* resolution without a final raster is documented to leave: its preview, if any.
RunLayers(r) == mapLayers \cap {FinalLayerOf(r), PreviewLayerOf(r)}
Toasts(r) == SelectSeq(notes[r], LAMBDA n : n.kind = "toast")
KeptLayers(r) == IF run[r].previewLayer THEN {PreviewLayerOf(r)} ELSE {}

\* C13: a resolution whose poll loop was exhausted has emitted exactly one toast
\* and added no final layer; with a preview the preview is still on the map and the
\* toast is not an error, without one the resolution has no layer on the map and
\* the toast is an error.
C13_TimeoutOutcome ==
    \A r \in Runs :
        (run[r].pc = "done" /\ run[r].finalStatus = "TIMEOUT")
        => /\ Len(Toasts(r)) = 1
           /\ Toasts(r)[1].isError = ~run[r].previewLayer
           /\ RunLayers(r) = KeptLayers(r)
           /\ forestLayer # FinalLayerOf(r)

\* C13 witness: a timeout after MAX_ATTEMPTS checks with the preview still shown.
C13_Witness ==
    /\ run[1].pc = "done" /\ run[1].finalStatus = "TIMEOUT" /\ run[1].previewLayer
    /\ hist[1].nChecks = MAX_ATTEMPTS
    /\ mapLayers = {PreviewLayerOf(1)}
    /\ Toasts(1) = <<Toast("Export is taking longer than expected; preview is shown.", FALSE)>>

\* C14 as stated: a resolution whose poll loop ended with COMPLETED ends with its
\* final layer as the displayed forest layer and without its preview on the map.
C14_CompletedShowsFinal ==
    [][\A r \in Runs :
         (run[r].pc = "finalFetch" /\ run'[r].pc = "done")
         => (forestLayer' = FinalLayerOf(r) /\ PreviewLayerOf(r) \notin mapLayers')]_vars

\* C14 amended: when the poll loop ended with COMPLETED and the final raster is
\* fetched and decoded, the final layer replaces the displayed forest layer and
\* the resolution ends without its preview on the map.
C14_FetchedFinalShown ==
    [][\A r \in Runs :
         FinalFetch(r, TRUE)
         => /\ run[r].finalStatus = "COMPLETED"
            /\ run'[r].pc = "done"
            /\ forestLayer' = FinalLayerOf(r) /\ FinalLayerOf(r) \in mapLayers'
            /\ forestLayer \notin mapLayers'
            /\ PreviewLayerOf(r) \notin mapLayers'
            /\ geotiffLoaded']_vars

\* C14 witness: a resolution that showed a preview ended with only its final layer.
C14_Witness ==
    /\ run[1].pc = "done" /\ run[1].finalStatus = "COMPLETED" /\ run[1].previewLayer
    /\ forestLayer = FinalLayerOf(1)
    /\ RunLayers(1) = {FinalLayerOf(1)}

GapFree(n) ==
    /\ Len(wildfireFrames) = n
    /\ \A i \in 1..n : frameStep[wildfireFrames[i]] = i - 1

\* C16: an undisturbed discovery probes the timesteps 0, 1, 2, ... in order; when it
\* probes timestep k it holds exactly the frames 0..k-1 in order; a probe that
\* reports absence at k ends it with exactly these k frames; it never holds more
\* than maxTimesteps frames.
C16_DiscoveryGapFree ==
    /\ [](\A l \in Loaders :
            loadPc[l] \in {"head", "fetch", "finish"}
            => (GapFree(timestep[l]) /\ timestep[l] <= maxTimesteps))
    /\ [](\A l \in Loaders : loadPc[l] \in {"head", "fetch"} => timestep[l] < maxTimesteps)
    /\ [][\A l \in Loaders :
            timestep'[l] # timestep[l]
            => \/ loadPc[l] = "fetch" /\ timestep'[l] = timestep[l] + 1
               \/ loadPc[l] \in {"idle", "done"} /\ timestep'[l] = 0]_vars
    /\ [][\A l \in Loaders :
            LoadHead(l, FALSE) => (loadPc'[l] = "finish" /\ GapFree(timestep[l])')]_vars
    /\ [][\A l \in Loaders :
            LoadFinish(l)
            => /\ GapFree(timestep[l])'
               /\ loadResult'[l] = IF timestep[l] = 0 THEN "empty" ELSE "true"]_vars

\* C16 witness: a discovery that found timestep 0, was told that timestep 1 is
\* absent, and returned true with the one frame.
C16_Witness ==
    /\ loadPc["l1"] = "done" /\ loadResult["l1"] = "true"
    /\ timestep["l1"] = 1 /\ timestep["l1"] < maxTimesteps
    /\ GapFree(1)

\* C17: a failed fetch or decode of timestep i ends an undisturbed discovery with
\* exactly the frames 0..i-1, as an absent probe at i does; a discovery that ends
\* without a frame reports the empty result (error toast, false), and only then.
C17_FailureStopsDiscovery ==
    /\ [][\A l \in Loaders :
            LoadFetch(l, FALSE)
            => /\ loadPc'[l] = "finish"
               /\ wildfireFrames' = wildfireFrames /\ onMap' = onMap
               /\ GapFree(timestep[l])']_vars
    /\ [][\A l \in Loaders :
            LoadFinish(l) => (loadResult'[l] = "empty" <=> Len(wildfireFrames) = 0)]_vars
    /\ [](\A l \in Loaders :
            (loadPc[l] = "done" /\ loadResult[l] = "empty") => timestep[l] = 0)

\* C17 witness: a discovery that ended at timestep 0 and reported the empty result.
C17_Witness ==
    /\ loadPc["l1"] = "done" /\ loadResult["l1"] = "empty"
    /\ timestep["l1"] = 0 /\ wildfireFrames = <<>> /\ nFrameObjs = 0

\* C18: when a resolution starts for another county than the one selected before,
\* no layer of a resolution that has ended is on the map any more.
C18_PriorLayersRemoved ==
    [][\A r \in Runs, k \in Keys :
         (k # currentCountyKey /\ HandleStart(r, k))
         => \A q \in Runs \ {r} : run[q].pc = "done" => RunLayers(q)' = {}]_vars

FinalLayers == {x \in mapLayers : x.kind = "final"}
PreviewLayers == {x \in mapLayers : x.kind = "preview"}

\* C19: at most one final forest raster layer is on the map, and it is the one the
\* module variable forestLayer refers to.
C19_OneFinalLayer ==
    /\ Cardinality(FinalLayers) <= 1
    /\ FinalLayers \subseteq {forestLayer}

\* C19 witness: both resolutions rendered a final raster, the first from the cache
\* and the second after its export completed; only the second's layer is on the map.
C19_Witness ==
    /\ run[1].pc = "done" /\ run[1].finalStatus = Null
    /\ notes[1] = <<Toast("Forest layer map loaded successfully.", FALSE)>>
    /\ run[2].pc = "done" /\ run[2].finalStatus = "COMPLETED"
    /\ forestLayer = FinalLayerOf(2)
    /\ FinalLayers = {FinalLayerOf(2)}

\* C20: at most one preview layer is on the map.
C20_OnePreviewLayer == Cardinality(PreviewLayers) <= 1

\* The addresses under which the raster of county key k is served.
AddressesOf(k) == {ExportsPath(k), ServedUrl(k)}

\* C21: a resolution started for key X observes only X's export: the task record
\* whose status it requests names no other key, and the address of the final
\* raster it fetches is not the address of another key's raster.
C21_NoCrossEntity ==
    \A r \in Runs :
        /\ run[r].pc = "checkWait"
           => run[r].task.countyKey \in {run[r].countyKey, Null}
        /\ run[r].pc = "finalFetch"
           => \A k \in Keys \ {run[r].countyKey} : run[r].fileUrl \notin AddressesOf(k)

\* C22: once startForestDataExport has begun a new task (the record is PENDING),
\* the answer to a status check issued for the record before it leaves the current
\* task record as it is.
C22_StaleAnswerIgnored ==
    [][\A r \in Runs, resp \in StatusResponses :
         (/\ currentExportTask.status = "PENDING"
          /\ run[r].task # currentExportTask
          /\ CheckResponse(r, resp))
         => currentExportTask' = currentExportTask]_vars

\* C23: a resolution that ended with FAILED or with a timeout (a rejected start ends
\* in one of the two) has raised exactly one notification, toast or alert, and no
\* notification is raised by a step that leaves the poll loop iterating.
C23_OneFailureNotification ==
    /\ [](\A r \in Runs :
            (run[r].pc = "done" /\ run[r].finalStatus \in {"FAILED", "TIMEOUT"})
            => Len(notes[r]) = 1)
    /\ [][\A r \in Runs :
            (run[r].pc \in {"checkWait", "sleep"} /\ run'[r].pc \in {"checkWait", "sleep"})
            => notes'[r] = notes[r]]_vars

\* C24: no status-check request is issued for a task that startForestDataExport
\* has set FAILED; with one resolution a record that is FAILED when the request is
\* issued was set so by the start call.
C24_FailedStartNotPolled ==
    \A r \in Runs : run[r].pc = "checkWait" => run[r].task.status # "FAILED"

\* Frame objects that were created and are no longer in the frame set.
DiscardedFrames == {f \in 1..nFrameObjs : f \notin FramesOf(wildfireFrames)}

C26_PlaybackCompletes ==
    /\ [](wildfireAnimTimer # 0 => currentFrame < Len(wildfireFrames))
    /\ [](\A r \in AnimRunIds :
            /\ animToasts[r] <= 1
            /\ animToasts[r] = 1 => (wildfireAnimTimer # r /\ r \in stopped))
    /\ [][(TimerTick /\ currentFrame + 1 >= Len(wildfireFrames))
            => /\ wildfireAnimTimer' = 0
               /\ animToasts'[wildfireAnimTimer] = 1
               /\ pending' = pending /\ opacity' = opacity]_vars
    /\ [][\A r \in AnimRunIds : r \in stopped => animToasts'[r] = animToasts[r]]_vars
    /\ \A r \in AnimRunIds :
          (wildfireAnimTimer = r) ~> (animToasts[r] = 1 \/ (r \in stopped /\ animToasts[r] = 0))

\* C26 witness: a run over two frames ticked twice and completed: the timer is
\* cleared and its one notification is out.
C26_Witness ==
    /\ animRuns = 1 /\ Len(wildfireFrames) = 2 /\ currentFrame = 2
    /\ wildfireAnimTimer = 0 /\ animToasts[1] = 1

\* C27: the key recorded in the export task of a resolution is the key the export
\* was started for, from the start call on: no later step changes it.
C27_KeyStable ==
    /\ [](currentExportTask # NoTask => currentExportTask.countyKey = currentCountyKey)
    /\ [][currentExportTask # NoTask
            => currentExportTask'.countyKey = currentExportTask.countyKey]_vars

\* C28: the task record has an address only when its status is COMPLETED, and the
\* record written for a start response COMPLETED (a cache hit) has no job id,
\* whatever task_id the response carries.
C28_AddressOnlyWhenCompleted ==
    /\ [](currentExportTask.localUrl # Null => currentExportTask.status = "COMPLETED")
    /\ [][\A r \in Runs : \A resp \in StartResponses(run[r].reqKey) :
            (resp.ok /\ resp.status = "COMPLETED" /\ StartResponse(r, resp))
            => /\ currentExportTask'.status = "COMPLETED"
               /\ currentExportTask'.id = Null
               /\ currentExportTask'.localUrl # Null]_vars

\* C28 witness: the first resolution completed an accepted export by polling; the
\* start call of the second was then answered COMPLETED, and the record has an
\* address and no job id.
C28_Witness ==
    /\ run[1].pc = "done" /\ run[1].finalStatus = "COMPLETED" /\ hist[1].startedProcessing
    /\ run[2].pc = "previewWait" /\ hist[2].nChecks = 0
    /\ currentExportTask.status = "COMPLETED" /\ currentExportTask.id = Null
    /\ currentExportTask.localUrl = ExportsPath(currentExportTask.countyKey)
    /\ currentExportTask.countyKey \in Keys

\* Resolutions suspended on a status-check request (DataManager line 176).
ChecksInFlight == {r \in Runs : run[r].pc = "checkWait"}

\* C29: at most one status-check request is in flight.
C29_OneCheckInFlight == Cardinality(ChecksInFlight) <= 1

\* The task records for which checkForestDataStatus is documented to do nothing.
Settled(task) == task.status \in {Null, "NONE", "COMPLETED"}
SettledAnswer(task) == IF task.status = "COMPLETED" THEN "COMPLETED" ELSE "NONE"

\* C30: checkForestDataStatus on a COMPLETED task, on no task or on status NONE
\* issues no request, leaves the task record and the published address as they
\* are, and returns COMPLETED or NONE; this holds for a call made on demand and for
\* the calls of the poll loop, which goes to the final fetch on COMPLETED.
C30_SettledTaskNoRequest ==
    /\ [][(CheckStatusCall /\ Settled(currentExportTask))
            => /\ onDemand'.pc = "returned"
               /\ onDemand'.ret = SettledAnswer(currentExportTask)
               /\ currentExportTask' = currentExportTask
               /\ currentGEEForestFileUrl' = currentGEEForestFileUrl]_vars
    /\ [][\A r \in Runs :
            (/\ Settled(currentExportTask)
             /\ \/ \E res \in PreviewResults : PreviewResult(r, res)
                \/ SleepDone(r) /\ LoopContinues(run[r].attempts))
            => /\ run'[r].pc = IF currentExportTask.status = "COMPLETED"
                               THEN "finalFetch" ELSE "sleep"
               /\ hist'[r].nChecks = hist[r].nChecks + 1
               /\ currentExportTask' = currentExportTask
               /\ currentGEEForestFileUrl' = currentGEEForestFileUrl]_vars
    /\ [](onDemand.pc = "checkWait" => ~Settled(onDemand.task))
    /\ [](\A r \in Runs : run[r].pc = "checkWait" => ~Settled(run[r].task))

\* C30 witness: an on-demand call made before any export was started returned
\* NONE; then the start call of the resolution was answered COMPLETED and the
\* first call of its poll loop returned COMPLETED.
C30_Witness ==
    /\ onDemand = [pc |-> "returned", task |-> NoTask, ret |-> "NONE"]
    /\ run[1].pc = "finalFetch" /\ hist[1].nChecks = 1
    /\ currentExportTask.status = "COMPLETED" /\ currentExportTask.id = Null
    /\ currentExportTask.localUrl = "https://host/exports/x.tif"

\* C31: a status answer whose status is none of COMPLETED, PROCESSING, FAILED makes
\* checkForestDataStatus return UNKNOWN with the task record and the published
\* address unchanged; the poll loop goes on to its interval sleep, the attempt
\* stays counted, and the budget of MAX_ATTEMPTS attempts is not exceeded.
C31_UnknownStatusContinues ==
    /\ [][\A r \in Runs, resp \in StatusResponses :
            (/\ resp.ok /\ resp.status \notin {"COMPLETED", "PROCESSING", "FAILED"}
             /\ CheckResponse(r, resp))
            => /\ StatusReturned(resp) = "UNKNOWN"
               /\ currentExportTask' = currentExportTask
               /\ currentGEEForestFileUrl' = currentGEEForestFileUrl
               /\ run'[r].pc = "sleep" /\ run'[r].finalStatus = Null
               /\ run'[r].attempts = run[r].attempts
               /\ hist'[r].nChecks = hist[r].nChecks
               /\ notes'[r] = notes[r]]_vars
    /\ [](\A r \in Runs : run[r].attempts <= MAX_ATTEMPTS /\ run[r].attempts <= hist[r].nChecks)

\* C31 witness: an accepted export whose status answers included an unknown
\* status ran out of attempts with the record still PROCESSING.
C31_Witness ==
    /\ run[1].pc = "done" /\ run[1].finalStatus = "TIMEOUT"
    /\ hist[1].startedProcessing /\ ~hist[1].allProcessing
    /\ hist[1].nChecks = MAX_ATTEMPTS
    /\ currentExportTask.status = "PROCESSING" /\ currentExportTask.id = "T1"

\* The values checkForestDataStatus returns for the answers of the job service.
OrdinaryAnswers == {StatusReturned(resp) : resp \in StatusResponses}
\* A task record that is PROCESSING without a job id.
NoJobId(task) == task.status = "PROCESSING" /\ task.id = Null

\* C32: checkForestDataStatus on a task that is PROCESSING without a job id issues
\* no request and gives its caller an outcome that is none of the values it
\* returns for a status answer; the poll loop ends on it.
C32_ProtocolErrorSignalled ==
    /\ [][(CheckStatusCall /\ NoJobId(currentExportTask))
            => /\ onDemand'.pc = "returned"
               /\ onDemand'.ret \notin OrdinaryAnswers]_vars
    /\ [][\A r \in Runs :
            (/\ NoJobId(currentExportTask)
             /\ \/ \E res \in PreviewResults : PreviewResult(r, res)
                \/ SleepDone(r) /\ LoopContinues(run[r].attempts))
            => run'[r].pc = "done"]_vars
    /\ [](onDemand.pc = "checkWait" => ~NoJobId(onDemand.task))
    /\ [](\A r \in Runs : run[r].pc = "checkWait" => ~NoJobId(run[r].task))

\* C33: a frame has a non-zero opacity only if its readiness promise has resolved;
\* a showFrame call whose frame is ready goes on at once, before any other step;
\* a resolved promise stays resolved.
C33_RevealOnlyWhenReady ==
    /\ [](\A f \in FrameObjs : opacity[f] # 0 => ready[f])
    /\ [][\A p \in pending : p \notin pending' => ready[p.frame]]_vars
    /\ [][(\E p \in pending : ready[p.frame])
            => \E p \in pending : ready[p.frame] /\ ShowFrameResume(p)]_vars
    /\ [][\A f \in FrameObjs : ready[f] => ready'[f]]_vars

\* C33 witness: playback revealed frame 0 and then frame 1 after each had become
\* ready; frame 1 is shown and no showFrame call is left waiting.
C33_Witness ==
    /\ wildfireAnimTimer # 0 /\ revealed = <<0, 1>> /\ pending = {}
    /\ Len(wildfireFrames) = 2
    /\ opacity[wildfireFrames[2]] = DEFAULT_WILDFIRE_OPACITY /\ ready[wildfireFrames[2]]

\* C34: the tick that advances playback to frame i hides the shown frame i-1 only
\* when the readiness promise of frame i has resolved.
C34_HideAfterNextReady ==
    [][(/\ TimerTick
        /\ currentFrame + 1 < Len(wildfireFrames)
        /\ opacity[wildfireFrames[currentFrame + 1]] # 0
        /\ opacity'[wildfireFrames[currentFrame + 1]] = 0)
         => ready[wildfireFrames[currentFrame + 2]]]_vars

\* C35: every start of loadWildfireFrames empties the frame set and clears the
\* timer, and the frame set is at all times the gap-free run of the timesteps
\* 0..k-1 in this order, also when calls of loadWildfireFrames overlap.
C35_FrameSetGapFree ==
    /\ [][\A l \in Loaders :
            LoadStart(l) => (wildfireFrames' = <<>> /\ wildfireAnimTimer' = 0)]_vars
    /\ [](GapFree(Len(wildfireFrames)))

\* C36: once resetForest has run, a resolution that was in flight at that moment
\* calls checkForestDataStatus no more and adds no forest layer to the map.
C36_ResetCancelsPolling ==
    [][\A r \in tornDown :
          /\ hist'[r].nChecks = hist[r].nChecks
          /\ (mapLayers' \cap {FinalLayerOf(r), PreviewLayerOf(r)}) \subseteq mapLayers]_vars

\* The interval timers that were created and not cleared.
LiveTimers == (1..animRuns) \ stopped

\* C37: at most one interval timer is live, and it is the one wildfireAnimTimer
\* refers to; startAnimation clears the timer it finds before it creates the new
\* one; after stopAnimation no timer is live, and only a live timer ticks.
C37_OneLiveTimer ==
    /\ [](/\ Cardinality(LiveTimers) <= 1
          /\ LiveTimers = IF wildfireAnimTimer = 0 THEN {} ELSE {wildfireAnimTimer})
    /\ [][StartAnimation => LiveTimers' = {animRuns'}]_vars
    /\ [][StopAnimation => LiveTimers' = {}]_vars
    /\ [][TimerTick => wildfireAnimTimer \in LiveTimers]_vars

\* The animation was started again while its timer was live: the second timer
\* is the only live one and has ticked.
C37_Witness ==
    /\ wildfireAnimTimer = 2 /\ LiveTimers = {2}
    /\ 1 \in stopped /\ animToasts[1] = 0
    /\ currentFrame >= 1

\* The steps of resolution r that wait for a network answer or for the sleep timer.
Continuation(r) ==
    \/ \E ok \in BOOLEAN : CacheHead(r, ok)
    \/ \E ok \in BOOLEAN : CacheFetch(r, ok)
    \/ \E resp \in StartResponses(run[r].reqKey) : StartResponse(r, resp)
    \/ \E res \in PreviewResults : PreviewResult(r, res)
    \/ \E resp \in StatusResponses : CheckResponse(r, resp)
    \/ SleepDone(r)
    \/ \E ok \in BOOLEAN : FinalFetch(r, ok)

\* C38: if every network call returns or fails, a call of handleCountySelectionForGEE
\* that shows the loader returns; the step on which it returns leaves the loader
\* hidden and emits the one toast of the run, on every exit path.
C38_TerminatesHidesLoaderOneToast ==
    /\ (run[1].pc \notin {"idle", "done"}) ~> (run[1].pc = "done")
    /\ [](run[1].pc \notin {"idle", "done"} => loaderShown /\ Len(Toasts(1)) = 0)
    /\ [](run[1].pc = "done" => ~loaderShown /\ Len(Toasts(1)) = 1)

\* The resolution has timed out after MAX_ATTEMPTS status checks.
C38_Witness ==
    /\ run[1].pc = "done" /\ run[1].finalStatus = "TIMEOUT"
    /\ hist[1].nChecks = MAX_ATTEMPTS
    /\ ~loaderShown /\ Len(Toasts(1)) = 1

\* C39: whenever the current export task has status COMPLETED, the published file
\* address is that task's localUrl, however the calls of startForestDataExport and
\* checkForestDataStatus and their answers interleave.
C39_PublishedAddressIsTaskAddress ==
    currentExportTask.status = "COMPLETED" =>
        /\ currentGEEForestFileUrl # Null
        /\ currentGEEForestFileUrl = currentExportTask.localUrl

\* Two resolutions for different counties overlap; a status answer completed the
\* export, and one resolution goes to fetch the raster while the other still polls.
C39_Witness ==
    /\ currentExportTask.status = "COMPLETED"
    /\ currentExportTask.id # Null
    /\ currentGEEForestFileUrl = currentExportTask.localUrl
    /\ run[1].pc \in {"checkWait", "sleep"} /\ run[2].pc = "finalFetch"
    /\ run[1].countyKey # run[2].countyKey

\* The toast of a resolution whose final raster could not be fetched or decoded.
FinalFailureToast(preview) ==
    IF preview THEN Toast("Preview available, but final GeoTIFF failed to load.", TRUE)
    ELSE Toast("Failed to load forest layer.", TRUE)

\* C40: a resolution whose poll loop ended with COMPLETED and whose final raster
\* could not be fetched or decoded has added no final layer, has its preview (if
\* one was shown) still on the map and no other layer of its own, and has emitted
\* one toast, an error; the failing step changes no layer and emits that toast only.
C40_FinalFetchFailure ==
    /\ [](\A r \in Runs :
            (/\ run[r].pc = "done" /\ run[r].finalStatus = "COMPLETED"
             /\ Toasts(r) # <<Toast("Forest layer map loaded successfully.", FALSE)>>)
            => /\ Toasts(r) = <<FinalFailureToast(run[r].previewLayer)>>
               /\ RunLayers(r) = KeptLayers(r)
               /\ forestLayer # FinalLayerOf(r))
    /\ [][\A r \in Runs :
            FinalFetch(r, FALSE)
            => /\ run[r].finalStatus = "COMPLETED"
               /\ mapLayers' = mapLayers /\ forestLayer' = forestLayer
               /\ notes'[r] = Append(notes[r], FinalFailureToast(run[r].previewLayer))]_vars

\* The export completed, the final raster failed to load, and the preview of the
\* resolution is the only layer on the map.
C40_Witness ==
    /\ run[1].pc = "done" /\ run[1].finalStatus = "COMPLETED" /\ run[1].previewLayer
    /\ currentExportTask.status = "COMPLETED"
    /\ Toasts(1) = <<Toast("Preview available, but final GeoTIFF failed to load.", TRUE)>>
    /\ mapLayers = {PreviewLayerOf(1)}

\* ============================================================ specifications
Init == AnimInit /\ ExportInit

SpecAnim == Init /\ [][AnimNext]_vars

SpecLoad1 == Init /\ [][Load1Next]_vars

SpecReset == Init /\ [][ResetNext]_vars

\* The interval timer fires as long as it is live, and the continuation of a
\* showFrame call whose promise has resolved runs (the microtask queue is drained).
SpecPlay ==
    /\ Init /\ [][Load1Next]_vars
    /\ WF_vars(TimerTick)
    /\ WF_vars(\E p \in pending : ShowFrameResume(p))

SpecExport == Init /\ [][ExportNext]_vars

SpecExport1 == Init /\ [][Export1Next]_vars

SpecOnDemand == Init /\ [][OnDemandNext]_vars

\* Every network call of the resolution returns or fails, and the sleep timer fires.
SpecResolve == Init /\ [][Export1Next]_vars /\ WF_vars(Continuation(1))
====
